---- MODULE Spec2Model ----
(***************************************************************************)
(* Model of hpmachining/thread_mill: the two command line programs         *)
(* thread_mill.py (classes ScrewThread, CuttingTool, BodyDetails and the   *)
(* post_* emitters) and tmill_dict.py (the dictionary based version), and  *)
(* the use of the thread_mill.py classes through their constructors.       *)
(*                                                                         *)
(* Numbers.  Lengths typed by the user (diameters, depth, start plane,     *)
(* feed per tooth) are integers counting 0.0001 inch; threads per inch,    *)
(* flutes and surface speed are integers.  A value rounded to 4 decimals   *)
(* is an integer counting 0.0001, one rounded to 5 decimals counts         *)
(* 0.00001, one rounded to 2 decimals counts 0.01.  Unrounded quotients    *)
(* (pitch, rpm, feed rates) are exact fractions [n, d].  Python's round()  *)
(* of a binary float that sits (mathematically) half way between two       *)
(* decimals goes up or down with the float's representation error, so a    *)
(* half-way case is a choice (the parameter up) made by the calling step.  *)
(***************************************************************************)
EXTENDS Integers, Sequences, FiniteSets, TLC

\* ------------------------------------------------------------------ bounds
\* number_of_passes is drawn from 0..MaxPassesIn, finish_passes from
\* -1..MaxFinishIn.
MaxPassesIn == 5
MaxFinishIn == 3

\* The values the user may type (0.0001 inch for lengths).
MajorIn  == {0, 4382, 5000, 5002}
MinorIn  == {-4380, 4380, 5000}
DepthIn  == {0, 500}
StartIn  == {0, 2500}
TpiIn    == {-20, 0, 20}
DiaIn    == {0, 2500, 4380, 5000}
FlutesIn == {0, 4}
SpeedIn  == {-100, 100}
FeedIn   == {0, 10}
PassesIn == 0..MaxPassesIn
FinishIn == -1..MaxFinishIn

\* ------------------------------------------------------------- arithmetic
Abs(x) == IF x < 0 THEN -x ELSE x

RECURSIVE GCD(_, _)
GCD(a, b) == IF b = 0 THEN a ELSE GCD(b, a % b)

\* The fraction n/d in lowest terms with a positive denominator (d # 0).
Rat(n, d) ==
    LET g == GCD(Abs(n), Abs(d))
        s == IF d < 0 THEN -1 ELSE 1
    IN  [n |-> s * (n \div g), d |-> s * (d \div g)]

\* Product of two fractions, cancelling before multiplying.
RMul(a, b) ==
    LET g1 == GCD(Abs(a.n), b.d)
        g2 == GCD(Abs(b.n), a.d)
    IN  IF a.n = 0 \/ b.n = 0 THEN [n |-> 0, d |-> 1]
        ELSE [n |-> (a.n \div g1) * (b.n \div g2), d |-> (a.d \div g2) * (b.d \div g1)]

\* n/d (d > 0) rounded to the nearest integer; the half-way case goes up
\* when up, down otherwise.
RoundDiv(n, d, up) ==
    LET q == n \div d
        r == n % d
    IN  IF 2 * r < d THEN q
        ELSE IF 2 * r > d THEN q + 1
        ELSE IF up THEN q + 1 ELSE q

\* r * scale / d for 0 <= r < d and scale a power of ten, by long division:
\* the quotient q and the remainder r.
RECURSIVE LongDiv(_, _, _)
LongDiv(r, d, scale) ==
    IF scale = 1 THEN [q |-> 0, r |-> r]
    ELSE LET p == LongDiv(r, d, scale \div 10)
         IN  [q |-> p.q * 10 + ((p.r * 10) \div d), r |-> (p.r * 10) % d]

\* round(x * scale) for the fraction x and scale a power of ten.
RoundRat(x, scale, up) ==
    LET p == LongDiv(x.n % x.d, x.d, scale)
    IN  (x.n \div x.d) * scale + p.q + RoundDiv(p.r, x.d, up)

\* ------------------------------------------------------------- exceptions
NoError == [type |-> "none", field |-> "", what |-> ""]
Raise(type, field, what) == [type |-> type, field |-> field, what |-> what]
\* The result of a call: the exception it raised (NoError when it returned)
\* and the value it returned.
Return(v) == [err |-> NoError, val |-> v]
Throw(e)  == [err |-> e, val |-> <<>>]
None == [none |-> TRUE]

\* A line read by input(): <<>> before it is read, <<n>> once n was typed;
\* int(line) is the number typed.
Unread == <<>>
Typed(n) == <<n>>
int(line) == line[1]

\* --------------------------------------------------- thread_mill.py classes
\* ScrewThread.__init__: tpi is set to 0.0 whatever the arguments are.
ScrewThread(major, minor, depth, start, pitch) ==
    [major_diameter |-> major, minor_diameter |-> minor, depth |-> depth,
     start_plane |-> start, tpi |-> 0, pitch |-> pitch]

\* CuttingTool.__init__: rpm is set to 0.0 whatever the arguments are.
CuttingTool(diameter, flutes, speed, feed) ==
    [diameter |-> diameter, flutes |-> flutes, speed |-> speed, feed |-> feed,
     rpm |-> [n |-> 0, d |-> 1]]

\* vars(self) in insertion order.
ThreadKeys == <<"major_diameter", "minor_diameter", "depth", "start_plane", "tpi", "pitch">>
ToolKeys   == <<"diameter", "flutes", "speed", "feed", "rpm">>

\* The sign-carrying value of attribute key (pitch and rpm are fractions
\* with a positive denominator).
AttrValue(obj, key) ==
    IF key \in {"pitch", "rpm"} THEN obj[key].n ELSE obj[key]

\* The first key at or after position k whose value is <= 0.0 and which is
\* not exempt; "" when there is none.
RECURSIVE FirstNonPositive(_, _, _, _)
FirstNonPositive(obj, keys, exempt, k) ==
    IF k > Len(keys) THEN ""
    ELSE IF keys[k] \notin exempt /\ AttrValue(obj, keys[k]) <= 0 THEN keys[k]
    ELSE FirstNonPositive(obj, keys, exempt, k + 1)

\* ScrewThread.validate
ScrewThread_validate(thread) ==
    LET bad == FirstNonPositive(thread, ThreadKeys, {"start_plane"}, 1)
    IN  IF bad # "" THEN Raise("ValueError", bad, "must be > 0.0")
        ELSE IF thread.minor_diameter >= thread.major_diameter
             THEN Raise("ValueError", "minor_diameter", "must be less than Major diameter")
        ELSE NoError

\* CuttingTool.validate
CuttingTool_validate(tool) ==
    LET bad == FirstNonPositive(tool, ToolKeys, {}, 1)
    IN  IF bad # "" THEN Raise("ValueError", bad, "must be > 0.0") ELSE NoError

\* calc_pass_percentages with the upper limit of the range check off by one.
calc_pass_percentages_bug(passes) ==
    IF ~(0 < passes /\ passes <= 5)
    THEN Throw(Raise("ValueError", "number_of_passes", "is not a valid option"))
    ELSE IF passes = 1 THEN Return(<<100>>)
    ELSE IF passes = 2 THEN Return(<<65, 35>>)
    ELSE IF passes = 3 THEN Return(<<50, 30, 20>>)
    ELSE Return(<<40, 27, 20, 13>>)

\* BodyDetails.calc_pass_percentages, the fractions in hundredths.
calc_pass_percentages(passes) ==
    IF ~(0 < passes /\ passes < 5)
    THEN Throw(Raise("ValueError", "number_of_passes", "is not a valid option"))
    ELSE IF passes = 1 THEN Return(<<100>>)
    ELSE IF passes = 2 THEN Return(<<65, 35>>)
    ELSE IF passes = 3 THEN Return(<<50, 30, 20>>)
    ELSE Return(<<40, 27, 20, 13>>)

\* The loop of calc_toolpath_radii from pass k on.  base_radius,
\* total_stock and previous_radius count 0.00001, the radii 0.0001.
RECURSIVE radii_loop(_, _, _, _, _, _, _)
radii_loop(base_radius, total_stock, passes, ups, k, previous_radius, radii) ==
    IF k > Len(passes) THEN radii
    ELSE LET current_radius ==
                 RoundDiv(base_radius * 100 + total_stock * passes[k]
                          + previous_radius * 100, 1000, ups[k])
         IN  radii_loop(base_radius, total_stock, passes, ups, k + 1,
                        current_radius * 10 - base_radius,
                        Append(radii, current_radius))

\* total_stock_of with the diametral stock taken for the radial stock.
total_stock_of_bug(major, minor) == RoundDiv((major - minor) * 10, 1, TRUE)

total_stock_of(major, minor) == RoundDiv((major - minor) * 10, 2, TRUE)
base_radius_of(minor, tool_diameter) == RoundDiv((minor - tool_diameter) * 10, 2, TRUE)

\* BodyDetails.calc_toolpath_radii
calc_toolpath_radii(thread, passes, tool_diameter, ups) ==
    radii_loop(base_radius_of(thread.minor_diameter, tool_diameter),
               total_stock_of(thread.major_diameter, thread.minor_diameter),
               passes, ups, 1, 0, <<>>)

\* round(x * math.sin(math.radians(45)), 4) for x >= 0 counting 0.0001:
\* sin 45 = 0.7071 0678 1186 5476, multiplied digit group by digit group.
RoundSin45(x) ==
    LET a == x * 7071
        frac == (a % 10000) * 10000 + x * 678 + ((x * 1186) \div 10000)
    IN  (a \div 10000) + RoundDiv(frac, 100000000, TRUE)

\* BodyDetails.calc_lead_arcs
calc_lead_arcs(radii) == [k \in 1..Len(radii) |-> RoundSin45(radii[k])]

\* BodyDetails.calc_adjusted_feed: feed per tooth (inch) for each radius.
calc_adjusted_feed(radii, tool) ==
    [k \in 1..Len(radii) |->
        RMul(Rat(tool.feed, 10000), Rat(radii[k] * 2, radii[k] * 2 + tool.diameter))]

\* BodyDetails.calc_feed_rate: inches per minute for each radius.
calc_feed_rate(radii, tool) ==
    LET feeds == calc_adjusted_feed(radii, tool)
    IN  [k \in 1..Len(radii) |->
            RMul(RMul(feeds[k], Rat(tool.flutes, 1)), tool.rpm)]

BodyDetails_fit(thread, tool) ==
    IF tool.diameter > thread.minor_diameter
    THEN Raise("ValueError", "diameter", "must be less than Minor diameter")
    ELSE NoError

\* BodyDetails.__init__
BodyDetails(thread, tool, number_of_passes, ups, up) ==
    LET e1 == ScrewThread_validate(thread)
        e2 == CuttingTool_validate(tool)
        e3 == BodyDetails_fit(thread, tool)
        pp == calc_pass_percentages(number_of_passes)
        radii == calc_toolpath_radii(thread, pp.val, tool.diameter, ups)
        lead_z == RoundRat(RMul(Rat(125, 1000), thread.pitch), 10000, up)
    IN  IF e1 # NoError THEN Throw(e1)
        ELSE IF e2 # NoError THEN Throw(e2)
        ELSE IF e3 # NoError THEN Throw(e3)
        ELSE IF pp.err # NoError THEN Throw(pp.err)
        ELSE Return([passes |-> pp.val,
                     radii |-> radii,
                     lead_arcs |-> calc_lead_arcs(radii),
                     feed |-> calc_feed_rate(radii, tool),
                     top_plane |-> thread.start_plane,
                     lead_z |-> lead_z,
                     start_z |-> -(thread.depth + lead_z)])

\* ------------------------------------------------- thread_mill.py emitters
\* The rapid feed main passes to post_body (20.0), and tmill_dict's
\* fast_feed (15.0), counting 0.0001.
rapid_feed_main == 200000
fast_feed == 150000

\* post_begin: 'S<round(rpm)> M3'
post_begin(rpm, up) == [kind |-> "begin", S |-> RoundDiv(rpm.n, rpm.d, up)]

\* One motion block of the g-code text: the numbers printed on its seven
\* lines (G90 G0 Z / G91 G01 Z F / G01 X Y F / G03 X Y Z I0.0 J F /
\* G03 X0.0 Y0.0 Z I J0.0 F / G03 X Y Z I J0.0 F / G01 X Y F).
MotionBlock(top_plane, start_z, rapid, start_x, radius, lead_z, pitch, feed) ==
    LET start_y == -start_x
    IN  [kind |-> "body",
         z_top |-> top_plane, z_start |-> start_z, f_rapid |-> rapid,
         x1 |-> start_x, y1 |-> start_y, f |-> feed,
         x2 |-> radius - start_x, y2 |-> -start_y, z2 |-> lead_z, j2 |-> -start_y,
         z3 |-> pitch, i3 |-> -radius,
         x4 |-> -start_x, y4 |-> -start_y, z4 |-> lead_z, i4 |-> -start_x,
         x5 |-> -start_x, y5 |-> start_y]

\* post_body_block with the passes taken from the last to the first.
post_body_block_bug(toolpath, thread, rapid_feed, k, up) ==
    LET j == Len(toolpath.radii) - k + 1
    IN  MotionBlock(toolpath.top_plane, toolpath.start_z, rapid_feed,
                    RoundSin45(toolpath.lead_arcs[j]), toolpath.radii[j],
                    toolpath.lead_z, RoundRat(thread.pitch, 10000, up),
                    RoundRat(toolpath.feed[j], 10000, up))

\* The body of post_body's for loop for pass k: the block g_code.
post_body_block(toolpath, thread, rapid_feed, k, up) ==
    MotionBlock(toolpath.top_plane, toolpath.start_z, rapid_feed,
                RoundSin45(toolpath.lead_arcs[k]), toolpath.radii[k],
                toolpath.lead_z, RoundRat(thread.pitch, 10000, up),
                RoundRat(toolpath.feed[k], 10000, up))

\* post_body_extra with the finish pass itself counted as an extra copy.
post_body_extra_bug(finish_passes) == IF finish_passes > 1 THEN finish_passes ELSE 0

\* Number of extra copies of the last block post_body appends.
post_body_extra(finish_passes) == IF finish_passes > 1 THEN finish_passes - 1 ELSE 0

\* post_body: the blocks of the string it returns, in order.
post_body(toolpath, thread, finish_passes, rapid_feed, up) ==
    LET n == Len(toolpath.radii)
        g_code == post_body_block(toolpath, thread, rapid_feed, n, up)
    IN  [k \in 1..n |-> post_body_block(toolpath, thread, rapid_feed, k, up)]
        \o [j \in 1..post_body_extra(finish_passes) |-> g_code]

\* post_end: 'M99' and '%'
post_end == [kind |-> "end"]

\* ------------------------------------------------------------ tmill_dict.py
\* get_thread_info: the keys are checked in the order Major diameter,
\* Minor diameter, Thread depth, Starting plane, Threads per inch.
get_thread_info(major, minor, depth, start, tpi) ==
    LET threads == [major_diameter |-> major, minor_diameter |-> minor,
                    depth |-> depth, start_plane |-> start, tpi |-> tpi]
        bad == FirstNonPositive(threads,
                   <<"major_diameter", "minor_diameter", "depth", "start_plane", "tpi">>,
                   {"start_plane"}, 1)
    IN  IF bad # "" THEN Throw(Raise("ValueError", bad, "must be > 0.0"))
        ELSE IF threads.minor_diameter > threads.major_diameter
             THEN Throw(Raise("ValueError", "minor_diameter", "must be less than Major diameter"))
        ELSE Return(threads)

\* get_tool_info
get_tool_info(diameter, flutes, speed, feed) ==
    LET tool_info == [diameter |-> diameter, flutes |-> flutes, speed |-> speed, feed |-> feed]
        bad == FirstNonPositive(tool_info, <<"diameter", "flutes", "speed", "feed">>, {}, 1)
    IN  IF bad # "" THEN Throw(Raise("ValueError", bad, "must be > 0.0"))
        ELSE Return(tool_info)

\* main's check that the tool fits.
dict_tool_fit(thread_info, tool_info) ==
    IF tool_info.diameter > thread_info.minor_diameter
    THEN Raise("ValueError", "diameter", "must be less than Minor diameter")
    ELSE NoError

\* get_pass_percentages
get_pass_percentages(passes) ==
    IF ~(0 < passes /\ passes < 5)
    THEN Throw(Raise("ValueError", "number_of_passes", "is not a valid option"))
    ELSE IF passes = 1 THEN Return(<<100>>)
    ELSE IF passes = 2 THEN Return(<<65, 35>>)
    ELSE IF passes = 3 THEN Return(<<50, 30, 20>>)
    ELSE Return(<<40, 27, 20, 13>>)

\* get_toolpath_radii
get_toolpath_radii(thread, passes, tool_diameter, ups) ==
    radii_loop(base_radius_of(thread.minor_diameter, tool_diameter),
               total_stock_of(thread.major_diameter, thread.minor_diameter),
               passes, ups, 1, 0, <<>>)

\* get_lead_radii
get_lead_radii(radii) == [k \in 1..Len(radii) |-> RoundSin45(radii[k])]

\* get_feed_adjustment
get_feed_adjustment(radii, tool_diameter) ==
    [k \in 1..Len(radii) |-> Rat(radii[k] * 2, radii[k] * 2 + tool_diameter)]

\* main, from get_toolpath_radii to top_plane: the values write_body uses.
dict_plan(thread_info, tool_info, pass_percentages, ups, up) ==
    LET toolpath_radii == get_toolpath_radii(thread_info, pass_percentages,
                                             tool_info.diameter, ups)
        rpm == RoundRat(RMul(Rat(tool_info.speed * 382, 100),
                             Rat(10000, tool_info.diameter)), 1, up)
        pitch == Rat(1, thread_info.tpi)
        lead_z == RoundRat(RMul(Rat(125, 1000), pitch), 10000, up)
    IN  [radii |-> toolpath_radii,
         lead_arcs |-> get_lead_radii(toolpath_radii),
         feed_adjust |-> get_feed_adjustment(toolpath_radii, tool_info.diameter),
         rpm |-> rpm,
         feed |-> RMul(Rat(rpm * tool_info.feed, 10000), Rat(tool_info.flutes, 1)),
         pitch |-> pitch,
         lead_z |-> lead_z,
         start_z |-> -(thread_info.depth + lead_z),
         top_plane |-> thread_info.start_plane]

\* write_begin: 'S<speed> M3' and an empty line.
write_begin(speed) == [kind |-> "begin", S |-> speed]

\* write_body for pass k; the feed is rounded to 2 decimals (counts 0.01).
write_body(plan, k, up) ==
    MotionBlock(plan.top_plane, plan.start_z, fast_feed,
                RoundSin45(plan.lead_arcs[k]), plan.radii[k],
                plan.lead_z, RoundRat(plan.pitch, 10000, up),
                RoundRat(RMul(plan.feed, plan.feed_adjust[k]), 100, up))

\* write_end: 'M99' and '%'
write_end == [kind |-> "end"]

\* ------------------------------------------------------------------ state
VARIABLES
    prog,              \* "thread_mill", "tmill_dict": the program run; "api": the
                       \* thread_mill classes built through their constructors
    pc,                \* the position in main (or in the caller, for "api")
    half_up,           \* how this run's floats round at a decimal half-way case
                       \* (per pass for the radii), fixed when the plan is computed
    thread,            \* the ScrewThread object / the thread_info dictionary
    tool,              \* the CuttingTool object / the tool_info dictionary
    number_of_passes,  \* as read
    finish_passes,     \* as read
    pass_percentages,  \* tmill_dict: the list get_pass_percentages returned
    toolpath,          \* the BodyDetails object / the values main computed
    index,             \* tmill_dict: the pass the write loop is at (from 1)
    count,             \* tmill_dict: finish blocks written by the inner loop
    g_code_file,       \* what has been written to the g-code file, in order
    config_file,       \* what has been written to the settings file
    error              \* the exception that ended the run, or NoError

vars == <<prog, pc, half_up, thread, tool, number_of_passes, finish_passes,
          pass_percentages, toolpath, index, count, g_code_file, config_file, error>>

PitchIn == {0, 500}

Init ==
    /\ prog \in {"thread_mill", "tmill_dict", "api"}
    /\ pc = IF prog = "api" THEN "construct" ELSE "thread"
    /\ half_up = [k \in 1..4 |-> FALSE]
    /\ thread = None
    /\ tool = None
    /\ number_of_passes = Unread
    /\ finish_passes = Unread
    /\ pass_percentages = <<>>
    /\ toolpath = None
    /\ index = 0
    /\ count = 0
    /\ g_code_file = <<>>
    /\ config_file = <<>>
    /\ error = NoError

\* Where main goes when a call raised e: ValueError is caught and printed,
\* anything else leaves main as a traceback.
Handler(e) == IF e.type = "ValueError" THEN "caught" ELSE "crashed"

\* ------------------------------------------------------ thread_mill.py main
\* ScrewThread.input_thread_info on a fresh ScrewThread().
input_thread_info(major, minor, depth, start, tpi) ==
    LET read == [ScrewThread(major, minor, depth, start, [n |-> 0, d |-> 1])
                    EXCEPT !.tpi = tpi]
        self == [read EXCEPT !.pitch = Rat(1, tpi)]
    IN  IF tpi = 0
        THEN [err |-> Raise("ZeroDivisionError", "tpi", "float division by zero"),
              val |-> read]
        ELSE [err |-> ScrewThread_validate(self), val |-> self]

\* CuttingTool.input_tool_info on a fresh CuttingTool().
input_tool_info(diameter, flutes, speed, feed) ==
    LET read == CuttingTool(diameter, flutes, speed, feed)
        self == [read EXCEPT !.rpm = RMul(Rat(speed * 382, 100), Rat(10000, diameter))]
    IN  IF diameter = 0
        THEN [err |-> Raise("ZeroDivisionError", "diameter", "float division by zero"),
              val |-> read]
        ELSE [err |-> CuttingTool_validate(self), val |-> self]

\* main_finish_check with the limit off by one: 0 is let through.
main_finish_check_bug(finish) ==
    IF finish < 0 THEN Raise("ValueError", "finish_passes", "must be greater than 0")
    ELSE NoError

\* main's check of the finish pass count.
main_finish_check(finish) ==
    IF finish < 1 THEN Raise("ValueError", "finish_passes", "must be greater than 0")
    ELSE NoError

\* main: thread = ScrewThread(); thread.input_thread_info()
tm_input_thread_info ==
    /\ prog = "thread_mill" /\ pc = "thread"
    /\ \E major \in MajorIn, minor \in MinorIn, depth \in DepthIn,
          start \in StartIn, tpi \in TpiIn :
          LET r == input_thread_info(major, minor, depth, start, tpi)
          IN  /\ thread' = r.val
              /\ error' = r.err
              /\ pc' = IF r.err = NoError THEN "tool" ELSE Handler(r.err)
    /\ UNCHANGED <<prog, half_up, tool, number_of_passes, finish_passes,
                   pass_percentages, toolpath, index, count, g_code_file, config_file>>

\* main: tool = CuttingTool(); tool.input_tool_info()
tm_input_tool_info ==
    /\ prog = "thread_mill" /\ pc = "tool"
    /\ \E diameter \in DiaIn, flutes \in FlutesIn, speed \in SpeedIn, feed \in FeedIn :
          LET r == input_tool_info(diameter, flutes, speed, feed)
          IN  /\ tool' = r.val
              /\ error' = r.err
              /\ pc' = IF r.err = NoError THEN "passes" ELSE Handler(r.err)
    /\ UNCHANGED <<prog, half_up, thread, number_of_passes, finish_passes,
                   pass_percentages, toolpath, index, count, g_code_file, config_file>>

\* A caller of the classes: ScrewThread(major, minor, depth, start, pitch)
\* and CuttingTool(diameter, flutes, speed, feed).
api_construct ==
    /\ prog = "api" /\ pc = "construct"
    /\ \E major \in MajorIn, minor \in MinorIn, depth \in DepthIn,
          start \in StartIn, pitch \in PitchIn :
          thread' = ScrewThread(major, minor, depth, start, Rat(pitch, 10000))
    /\ \E diameter \in DiaIn, flutes \in FlutesIn, speed \in SpeedIn, feed \in FeedIn :
          tool' = CuttingTool(diameter, flutes, speed, feed)
    /\ pc' = "passes"
    /\ UNCHANGED <<prog, half_up, number_of_passes, finish_passes, pass_percentages,
                   toolpath, index, count, g_code_file, config_file, error>>

\* main: toolpath = BodyDetails(thread, tool, int(number_of_passes)); the
\* same call made by a caller of the classes.
tm_BodyDetails ==
    /\ prog \in {"thread_mill", "api"} /\ pc = "passes"
    /\ \E n \in PassesIn, ups \in [1..4 -> BOOLEAN] :
          LET r == BodyDetails(thread, tool, n, ups, ups[1])
          IN  /\ number_of_passes' = Typed(n)
              /\ half_up' = IF r.err = NoError THEN ups ELSE half_up
              /\ error' = r.err
              /\ toolpath' = IF r.err = NoError THEN r.val ELSE toolpath
              /\ pc' = IF r.err # NoError
                       THEN (IF prog = "api" THEN "raised" ELSE Handler(r.err))
                       ELSE IF prog = "api" THEN "built" ELSE "finish"
    /\ UNCHANGED <<prog, thread, tool, finish_passes, pass_percentages,
                   index, count, g_code_file, config_file>>

\* tm_finish_passes with the settings file written before the check of the
\* finish pass count instead of after it.
tm_finish_passes_bug ==
    /\ prog = "thread_mill" /\ pc = "finish"
    /\ \E f \in FinishIn :
          /\ finish_passes' = Typed(f)
          /\ config_file' = <<"g_code_name", thread.major_diameter, thread.minor_diameter,
                              thread.depth, thread.start_plane, thread.tpi,
                              tool.diameter, tool.flutes, tool.speed, tool.feed,
                              int(number_of_passes), f>>
          /\ error' = IF f < 1
                      THEN Raise("ValueError", "finish_passes", "must be greater than 0")
                      ELSE NoError
          /\ pc' = IF f < 1 THEN "caught" ELSE "begin"
    /\ UNCHANGED <<prog, half_up, thread, tool, number_of_passes, pass_percentages,
                   toolpath, index, count, g_code_file>>

\* main: read finish_passes and check it.
tm_finish_passes ==
    /\ prog = "thread_mill" /\ pc = "finish"
    /\ \E f \in FinishIn :
          /\ finish_passes' = Typed(f)
          /\ error' = main_finish_check(f)
          /\ pc' = IF main_finish_check(f) = NoError THEN "config" ELSE "caught"
    /\ UNCHANGED <<prog, half_up, thread, tool, number_of_passes, pass_percentages,
                   toolpath, index, count, g_code_file, config_file>>

\* write_config_file (thread_mill.py)
tm_write_config_file ==
    /\ prog = "thread_mill" /\ pc = "config"
    /\ config_file' = <<"g_code_name", thread.major_diameter, thread.minor_diameter,
                        thread.depth, thread.start_plane, thread.tpi,
                        tool.diameter, tool.flutes, tool.speed, tool.feed,
                        int(number_of_passes), int(finish_passes)>>
    /\ pc' = "begin"
    /\ UNCHANGED <<prog, half_up, thread, tool, number_of_passes, finish_passes,
                   pass_percentages, toolpath, index, count, g_code_file, error>>

\* main: g_code_file.write(post_begin(tool.rpm))
tm_post_begin ==
    /\ prog = "thread_mill" /\ pc = "begin"
    /\ g_code_file' = Append(g_code_file, post_begin(tool.rpm, half_up[1]))
    /\ pc' = "body"
    /\ UNCHANGED <<prog, half_up, thread, tool, number_of_passes, finish_passes,
                   pass_percentages, toolpath, index, count, config_file, error>>

\* main: g_code_file.write(post_body(toolpath, thread, int(finish_passes), 20.0))
tm_post_body ==
    /\ prog = "thread_mill" /\ pc = "body"
    /\ g_code_file' = g_code_file \o post_body(toolpath, thread, int(finish_passes),
                                                rapid_feed_main, half_up[1])
    /\ pc' = "end"
    /\ UNCHANGED <<prog, half_up, thread, tool, number_of_passes, finish_passes,
                   pass_percentages, toolpath, index, count, config_file, error>>

\* main: g_code_file.write(post_end())
tm_post_end ==
    /\ prog = "thread_mill" /\ pc = "end"
    /\ g_code_file' = Append(g_code_file, post_end)
    /\ pc' = "done"
    /\ UNCHANGED <<prog, half_up, thread, tool, number_of_passes, finish_passes,
                   pass_percentages, toolpath, index, count, config_file, error>>

\* ------------------------------------------------------- tmill_dict.py main
\* main: thread_info = get_thread_info()
td_get_thread_info ==
    /\ prog = "tmill_dict" /\ pc = "thread"
    /\ \E major \in MajorIn, minor \in MinorIn, depth \in DepthIn,
          start \in StartIn, tpi \in TpiIn :
          LET r == get_thread_info(major, minor, depth, start, tpi)
          IN  /\ thread' = IF r.err = NoError THEN r.val ELSE thread
              /\ error' = r.err
              /\ pc' = IF r.err = NoError THEN "tool" ELSE Handler(r.err)
    /\ UNCHANGED <<prog, half_up, tool, number_of_passes, finish_passes,
                   pass_percentages, toolpath, index, count, g_code_file, config_file>>

\* main: tool_info = get_tool_info() and the check that the tool fits.
td_get_tool_info ==
    /\ prog = "tmill_dict" /\ pc = "tool"
    /\ \E diameter \in DiaIn, flutes \in FlutesIn, speed \in SpeedIn, feed \in FeedIn :
          LET r == get_tool_info(diameter, flutes, speed, feed)
              e == IF r.err # NoError THEN r.err ELSE dict_tool_fit(thread, r.val)
          IN  /\ tool' = IF r.err = NoError THEN r.val ELSE tool
              /\ error' = e
              /\ pc' = IF e = NoError THEN "passes" ELSE Handler(e)
    /\ UNCHANGED <<prog, half_up, thread, number_of_passes, finish_passes,
                   pass_percentages, toolpath, index, count, g_code_file, config_file>>

\* main: pass_percentages = get_pass_percentages(number_of_passes)
td_get_pass_percentages ==
    /\ prog = "tmill_dict" /\ pc = "passes"
    /\ \E n \in PassesIn :
          LET r == get_pass_percentages(n)
          IN  /\ number_of_passes' = Typed(n)
              /\ pass_percentages' = IF r.err = NoError THEN r.val ELSE pass_percentages
              /\ error' = r.err
              /\ pc' = IF r.err = NoError THEN "finish" ELSE Handler(r.err)
    /\ UNCHANGED <<prog, half_up, thread, tool, finish_passes, toolpath, index, count,
                   g_code_file, config_file>>

\* tmill_dict main's check of the finish pass count.
dict_finish_check(finish) ==
    IF finish < 1 THEN Raise("ValueError", "finish_passes", "must be greater than 0")
    ELSE NoError

\* main: read finish_passes and check it.
td_finish_passes ==
    /\ prog = "tmill_dict" /\ pc = "finish"
    /\ \E f \in FinishIn :
          /\ finish_passes' = Typed(f)
          /\ error' = dict_finish_check(f)
          /\ pc' = IF dict_finish_check(f) = NoError THEN "plan" ELSE "caught"
    /\ UNCHANGED <<prog, half_up, thread, tool, number_of_passes, pass_percentages,
                   toolpath, index, count, g_code_file, config_file>>

\* main: toolpath_radii ... top_plane
td_plan ==
    /\ prog = "tmill_dict" /\ pc = "plan"
    /\ \E ups \in [1..4 -> BOOLEAN] :
          /\ half_up' = ups
          /\ toolpath' = dict_plan(thread, tool, pass_percentages, ups, ups[1])
    /\ pc' = "begin"
    /\ UNCHANGED <<prog, thread, tool, number_of_passes, finish_passes,
                   pass_percentages, index, count, g_code_file, config_file, error>>

\* main: write_begin(g_code_file, rpm)
td_write_begin ==
    /\ prog = "tmill_dict" /\ pc = "begin"
    /\ g_code_file' = Append(g_code_file, write_begin(toolpath.rpm))
    /\ index' = 1
    /\ pc' = "body"
    /\ UNCHANGED <<prog, half_up, thread, tool, number_of_passes, finish_passes,
                   pass_percentages, toolpath, count, config_file, error>>

\* range(int(finish_passes) - 1): the number of turns of the inner loop.
dict_extra(finish) == IF finish - 1 > 0 THEN finish - 1 ELSE 0

\* main: the write_body call of the for loop for the pass at index.
td_write_body ==
    /\ prog = "tmill_dict" /\ pc = "body"
    /\ g_code_file' = Append(g_code_file, write_body(toolpath, index, half_up[1]))
    /\ IF index = Len(toolpath.radii)
       THEN /\ index' = index
            /\ pc' = IF dict_extra(int(finish_passes)) > 0 THEN "finish_body" ELSE "end"
       ELSE /\ index' = index + 1
            /\ pc' = "body"
    /\ UNCHANGED <<prog, half_up, thread, tool, number_of_passes, finish_passes,
                   pass_percentages, toolpath, count, config_file, error>>

\* main: one write_body call of the inner (finish pass) loop.
td_write_body_finish ==
    /\ prog = "tmill_dict" /\ pc = "finish_body"
    /\ g_code_file' = Append(g_code_file, write_body(toolpath, index, half_up[1]))
    /\ count' = count + 1
    /\ pc' = IF count + 1 = dict_extra(int(finish_passes)) THEN "end" ELSE "finish_body"
    /\ UNCHANGED <<prog, half_up, thread, tool, number_of_passes, finish_passes,
                   pass_percentages, toolpath, index, config_file, error>>

\* main: write_end(g_code_file)
td_write_end ==
    /\ prog = "tmill_dict" /\ pc = "end"
    /\ g_code_file' = Append(g_code_file, write_end)
    /\ pc' = "config"
    /\ UNCHANGED <<prog, half_up, thread, tool, number_of_passes, finish_passes,
                   pass_percentages, toolpath, index, count, config_file, error>>

\* write_config_file (tmill_dict.py); main passes config_name as file_name.
td_write_config_file ==
    /\ prog = "tmill_dict" /\ pc = "config"
    /\ config_file' = <<"config_name", thread.major_diameter, thread.minor_diameter,
                        thread.depth, thread.start_plane, thread.tpi,
                        tool.diameter, tool.flutes, tool.speed, tool.feed,
                        int(number_of_passes), int(finish_passes)>>
    /\ pc' = "done"
    /\ UNCHANGED <<prog, half_up, thread, tool, number_of_passes, finish_passes,
                   pass_percentages, toolpath, index, count, g_code_file, error>>

Next ==
    \/ tm_input_thread_info
    \/ tm_input_tool_info
    \/ api_construct
    \/ tm_BodyDetails
    \/ tm_finish_passes
    \/ tm_write_config_file
    \/ tm_post_begin
    \/ tm_post_body
    \/ tm_post_end
    \/ td_get_thread_info
    \/ td_get_tool_info
    \/ td_get_pass_percentages
    \/ td_finish_passes
    \/ td_plan
    \/ td_write_begin
    \/ td_write_body
    \/ td_write_body_finish
    \/ td_write_end
    \/ td_write_config_file

Spec == Init /\ [][Next]_vars

\* ----------------------------------------------------------------- claims
\* The motion blocks written to the g-code file so far, in order.
IsBody(b) == b.kind = "body"
Bodies == SelectSeq(g_code_file, IsBody)

\* A plan (the radii, lead arcs and feeds) has been computed.
Planned == toolpath # None

\* C1: the radii of a computed plan are strictly increasing from pass to
\* pass, whatever the inputs that passed validation.
C1_RadiiStrictlyIncreasing ==
    Planned => \A k \in 2..Len(toolpath.radii) :
                   toolpath.radii[k] > toolpath.radii[k - 1]

\* C2: the last radius of a computed plan is round(base_radius +
\* total_stock, 4), for every pass count (a half-way sum may round either way).
C2_LastRadiusIsFullDepth ==
    Planned =>
        LET sum5 == base_radius_of(thread.minor_diameter, tool.diameter)
                    + total_stock_of(thread.major_diameter, thread.minor_diameter)
            last == toolpath.radii[Len(toolpath.radii)]
        IN  last \in {RoundDiv(sum5, 10, TRUE), RoundDiv(sum5, 10, FALSE)}

\* C3: when a run has written its whole body, the number of motion blocks is
\* pass_count + (finish_passes - 1), the last finish_passes blocks are the
\* same text, and that text is the block of the final planned pass.
C3_FinishBlocks ==
    (pc = "done" \/ (prog = "tmill_dict" /\ pc = "config")) =>
        LET n == Len(Bodies)
        IN  /\ n = int(number_of_passes) + (int(finish_passes) - 1)
            /\ \A k \in (n - int(finish_passes) + 1)..n : Bodies[k] = Bodies[int(number_of_passes)]
            /\ Bodies[n].i3 = -toolpath.radii[Len(toolpath.radii)]

C3_Witness ==
    /\ pc = "done"
    /\ int(finish_passes) = 3
    /\ int(number_of_passes) = 2
    /\ Len(Bodies) = 4
    /\ Bodies[1] # Bodies[2]

\* C4: a pass count outside 1..4 ends in a ValueError and leaves no fraction
\* list; a pass count of 1, 2, 3 or 4 that is looked up gives exactly
\* [1.00], [0.65, 0.35], [0.50, 0.30, 0.20], [0.40, 0.27, 0.20, 0.13]
\* (hundredths), as many fractions as passes.
C4_Table == <<(<<100>>), <<65, 35>>, <<50, 30, 20>>, <<40, 27, 20, 13>>>>

C4_PassPercentages ==
    number_of_passes # Unread =>
        IF int(number_of_passes) \in 1..4
        THEN /\ error.field # "number_of_passes"
             /\ prog = "tmill_dict" =>
                    /\ pass_percentages = C4_Table[int(number_of_passes)]
                    /\ Len(pass_percentages) = int(number_of_passes)
             /\ (prog # "tmill_dict" /\ error.field # "finish_passes") =>
                    (error = NoError <=> Planned)
             /\ (prog # "tmill_dict" /\ Planned) =>
                    /\ toolpath.passes = C4_Table[int(number_of_passes)]
                    /\ Len(toolpath.passes) = int(number_of_passes)
                    /\ Len(toolpath.radii) = int(number_of_passes)
        ELSE /\ error.type = "ValueError"
             /\ pass_percentages = <<>>
             /\ ~Planned
             /\ pc \in {"caught", "raised"}
             /\ prog = "tmill_dict" => error.field = "number_of_passes"
             /\ (prog = "thread_mill" /\ tool.diameter <= thread.minor_diameter) =>
                    error.field = "number_of_passes"

C4_Witness ==
    /\ prog = "thread_mill"
    /\ number_of_passes # Unread
    /\ int(number_of_passes) = 5
    /\ error.field = "number_of_passes"
    /\ pc = "caught"

\* C5: a plan is only computed for a tool that fits, tool.diameter strictly
\* less than thread.minor_diameter, that is with base_radius > 0.
C5_ToolFits ==
    Planned => /\ tool.diameter < thread.minor_diameter
               /\ base_radius_of(thread.minor_diameter, tool.diameter) > 0

\* C6: a thread whose minor diameter is not less than its major diameter is
\* never accepted, in either program.
C6_MinorLessThanMajor ==
    (prog \in {"thread_mill", "tmill_dict"} /\ tool # None /\ thread # None) =>
        thread.minor_diameter < thread.major_diameter

\* The fields the user typed for the thread (start_plane apart) and the tool.
C7_ThreadFields == {"major_diameter", "minor_diameter", "depth", "tpi"}
C7_ToolFields == {"diameter", "flutes", "speed", "feed"}

\* C7: in thread_mill.py a typed value <= 0 ends the run in a ValueError
\* that names a field with such a value, and no run ends in another kind
\* of failure.
C7_NonPositiveIsValueError ==
    /\ error.type \in {"none", "ValueError"}
    /\ (prog = "thread_mill" /\ thread # None /\ tool = None
        /\ \E k \in C7_ThreadFields : thread[k] <= 0) =>
            /\ error.type = "ValueError"
            /\ pc = "caught"
            /\ error.field \in C7_ThreadFields /\ thread[error.field] <= 0
    /\ (prog = "thread_mill" /\ tool # None
        /\ \E k \in C7_ToolFields : tool[k] <= 0) =>
            /\ error.type = "ValueError"
            /\ pc = "caught"
            /\ error.field \in C7_ToolFields /\ tool[error.field] <= 0

\* C8: a ScrewThread and a CuttingTool constructed from valid fields (major >
\* minor > 0, depth > 0, pitch > 0; four positive tool fields), with a tool
\* that fits and a pass count in 1..4, give a BodyDetails without error.
C8_ValidConstructionAccepted ==
    (/\ prog = "api"
     /\ number_of_passes # Unread
     /\ int(number_of_passes) \in 1..4
     /\ thread.major_diameter > thread.minor_diameter
     /\ thread.minor_diameter > 0
     /\ thread.depth > 0
     /\ thread.pitch.n > 0
     /\ \A k \in C7_ToolFields : tool[k] > 0
     /\ tool.diameter < thread.minor_diameter) =>
        /\ error = NoError
        /\ Planned

\* C9 as stated: a run that ended in an error has computed no plan and has
\* written nothing to the g-code file or the settings file.
C9_NoPlanNoOutputOnError ==
    error # NoError =>
        /\ ~Planned
        /\ g_code_file = <<>>
        /\ config_file = <<>>

\* C9 amended: a run that ended in an error has written nothing to the
\* g-code file or the settings file, and has computed no plan unless the
\* error is thread_mill.py's check of the finish pass count, which main makes
\* after it built the plan.
C9_NoOutputOnError ==
    error # NoError =>
        /\ g_code_file = <<>>
        /\ config_file = <<>>
        /\ Planned => (prog = "thread_mill" /\ error.field = "finish_passes")

C9_Witness ==
    /\ prog = "thread_mill"
    /\ error.field = "finish_passes"
    /\ pc = "caught"
    /\ Planned
    /\ g_code_file = <<>>

\* C10: a finish pass count below 1 ends the run in a ValueError, caught by
\* main, with no motion block written.
C10_FinishPassesRejected ==
    (finish_passes # Unread /\ int(finish_passes) < 1) =>
        /\ error = Raise("ValueError", "finish_passes", "must be greater than 0")
        /\ pc = "caught"
        /\ Bodies = <<>>

C10_Witness ==
    /\ finish_passes # Unread
    /\ int(finish_passes) = 0
    /\ pc = "caught"
    /\ Planned

\* C11: for every pass of a computed plan the feed adjustment factor
\* 2 * radius / (2 * radius + tool.diameter) is strictly between 0 and 1, and
\* the feed the plan stores for the pass (thread_mill.py: the feed rate;
\* tmill_dict.py: the factor) is strictly positive.
C11_FeedFactorInUnitInterval ==
    Planned =>
        \A k \in 1..Len(toolpath.radii) :
            /\ 0 < 2 * toolpath.radii[k]
            /\ 2 * toolpath.radii[k] < 2 * toolpath.radii[k] + tool.diameter
            /\ prog = "tmill_dict" =>
                   /\ 0 < toolpath.feed_adjust[k].n
                   /\ toolpath.feed_adjust[k].n < toolpath.feed_adjust[k].d
            /\ prog # "tmill_dict" => 0 < toolpath.feed[k].n

\* The inputs of the end-to-end example: major 0.500, minor 0.438, depth
\* 0.050, start plane 0.25, 20 TPI, tool diameter 0.250, 4 flutes, 100 SFM,
\* 0.001 feed per tooth, 1 pass, 1 finish pass.
C12_Example ==
    /\ prog \in {"thread_mill", "tmill_dict"}
    /\ pc = "done"
    /\ thread.major_diameter = 5000 /\ thread.minor_diameter = 4380
    /\ thread.depth = 500 /\ thread.start_plane = 2500 /\ thread.tpi = 20
    /\ tool.diameter = 2500 /\ tool.flutes = 4 /\ tool.speed = 100 /\ tool.feed = 10
    /\ int(number_of_passes) = 1 /\ int(finish_passes) = 1

\* C12: a finished run on the example's inputs has base_radius 0.094,
\* total_stock 0.031, radii [0.125], lead arcs [0.0884], and a g-code file
\* made of 'S1528 M3', exactly one motion block, then 'M99' and '%'.
C12_EndToEnd ==
    C12_Example =>
        /\ base_radius_of(thread.minor_diameter, tool.diameter) = 9400
        /\ total_stock_of(thread.major_diameter, thread.minor_diameter) = 3100
        /\ toolpath.radii = <<1250>>
        /\ toolpath.lead_arcs = <<884>>
        /\ Len(g_code_file) = 3
        /\ g_code_file[1] = [kind |-> "begin", S |-> 1528]
        /\ g_code_file[2].kind = "body"
        /\ g_code_file[2].i3 = -1250
        /\ g_code_file[3] = [kind |-> "end"]

C12_Witness ==
    /\ C12_Example
    /\ prog = "thread_mill"
    /\ Len(Bodies) = 1

C14_BlockReturnsToStart ==
    \A k \in 1..Len(Bodies) :
        /\ Bodies[k].x1 + Bodies[k].x2 + 0 + Bodies[k].x4 + Bodies[k].x5 = 0
        /\ Bodies[k].y1 + Bodies[k].y2 + 0 + Bodies[k].y4 + Bodies[k].y5 = 0

====
